---- MODULE Spec2Model ----
(***************************************************************************)
(* A model of pacman-rs' local database: the manifest (mtree) parser, the  *)
(* descriptor (desc) parser and the lazily filled LocalDatabase cache.     *)
(*                                                                         *)
(* Text is modelled as a sequence of one-character strings, so that trim,  *)
(* split, starts_with, contains and the numeric parses are computed the    *)
(* way the Rust standard library computes them.                            *)
(***************************************************************************)
EXTENDS Integers, Sequences, FiniteSets, TLC

\* ------------------------------------------------------------------------
\* Bounds of the model
\* ------------------------------------------------------------------------
\* Longest manifest text, in lines, that the manifest machine is started on.
MaxLines == 2

\* ------------------------------------------------------------------------
\* Text helpers (str::trim, str::split, str::starts_with, str::contains)
\* ------------------------------------------------------------------------
NL == "\n"
SP == " "

None == [some |-> FALSE]
Some(x) == [some |-> TRUE, val |-> x]

\* char::is_whitespace, restricted to the characters of the model's texts
IsWs(c) == c \in {" ", "\n", "\t", "\r"}

\* str::trim_start and str::trim_end
TrimStart(s) ==
    LET keep == {i \in 1..Len(s) : ~IsWs(s[i])}
    IN  IF keep = {} THEN <<>>
        ELSE SubSeq(s, CHOOSE i \in keep : \A j \in keep : i <= j, Len(s))

TrimEnd(s) ==
    LET keep == {i \in 1..Len(s) : ~IsWs(s[i])}
    IN  IF keep = {} THEN <<>>
        ELSE SubSeq(s, 1, CHOOSE i \in keep : \A j \in keep : i >= j)

\* str::trim
Trim(s) == TrimEnd(TrimStart(s))

\* str::split(c): the pieces between occurrences of c; never an empty list,
\* and two adjacent separators give an empty piece.
Split(s, c) ==
    LET at     == {i \in 1..Len(s) : s[i] = c}
        n      == Cardinality(at)
        \* the position of the k-th separator; 0 and Len(s) + 1 bracket them
        sep(k) == IF k = 0 THEN 0
                  ELSE IF k = n + 1 THEN Len(s) + 1
                  ELSE CHOOSE i \in at : Cardinality({j \in at : j <= i}) = k
    IN  [k \in 1..(n + 1) |-> SubSeq(s, sep(k - 1) + 1, sep(k) - 1)]

\* str::starts_with
StartsWith(s, p) == Len(p) <= Len(s) /\ SubSeq(s, 1, Len(p)) = p

\* str::ends_with
EndsWith(s, p) == Len(p) <= Len(s) /\ SubSeq(s, Len(s) - Len(p) + 1, Len(s)) = p

\* str::contains with a string pattern
Contains(s, p) == \E i \in 0..(Len(s) - Len(p)) : SubSeq(s, i + 1, i + Len(p)) = p

\* str::contains with a character pattern
HasChar(s, c) == \E i \in 1..Len(s) : s[i] = c

\* concatenation of a sequence of texts, each followed by sep
RECURSIVE JoinEach(_, _)
JoinEach(ss, sep) ==
    IF ss = <<>> THEN <<>> ELSE Head(ss) \o sep \o JoinEach(Tail(ss), sep)

\* concatenation of a sequence of texts with sep between them
RECURSIVE JoinWith(_, _)
JoinWith(ss, sep) ==
    IF ss = <<>> THEN <<>>
    ELSE IF Len(ss) = 1 THEN Head(ss)
    ELSE Head(ss) \o sep \o JoinWith(Tail(ss), sep)

Digits == {"0", "1", "2", "3", "4", "5", "6", "7", "8", "9"}

DigitVal(c) ==
    CASE c = "0" -> 0 [] c = "1" -> 1 [] c = "2" -> 2 [] c = "3" -> 3
      [] c = "4" -> 4 [] c = "5" -> 5 [] c = "6" -> 6 [] c = "7" -> 7
      [] c = "8" -> 8 [] c = "9" -> 9

RECURSIVE DigitsValue(_, _)
DigitsValue(s, acc) ==
    IF s = <<>> THEN acc ELSE DigitsValue(Tail(s), acc * 10 + DigitVal(Head(s)))

AllDigits(s) == \A i \in 1..Len(s) : s[i] \in Digits

\* The largest values of u16, u32 and usize (64 bits), as decimal digits: the
\* parsed texts are compared with them digit by digit.
U16MaxDigits   == <<"6", "5", "5", "3", "5">>
U32MaxDigits   == <<"4", "2", "9", "4", "9", "6", "7", "2", "9", "5">>
UsizeMaxDigits == <<"1", "8", "4", "4", "6", "7", "4", "4", "0", "7", "3", "7",
                    "0", "9", "5", "5", "1", "6", "1", "5">>

RECURSIVE StripZeros(_)
StripZeros(s) ==
    IF Len(s) > 1 /\ Head(s) = "0" THEN StripZeros(Tail(s)) ELSE s

\* lexicographic a <= b for digit sequences of one length
RECURSIVE DigitsLeq(_, _)
DigitsLeq(a, b) ==
    IF a = <<>> THEN TRUE
    ELSE IF DigitVal(Head(a)) < DigitVal(Head(b)) THEN TRUE
    ELSE IF DigitVal(Head(a)) > DigitVal(Head(b)) THEN FALSE
    ELSE DigitsLeq(Tail(a), Tail(b))

\* whether the number written by the digits s is at most the one written by max
FitsIn(s, max) ==
    LET a == StripZeros(s)
    IN  Len(a) < Len(max) \/ (Len(a) = Len(max) /\ DigitsLeq(a, max))

\* <unsigned integer>::from_str: an optional "+", then one or more decimal
\* digits; anything else, and a value above the type's maximum, is an error.
ParseUint(s, max) ==
    LET body == IF s # <<>> /\ Head(s) = "+" THEN Tail(s) ELSE s
    IN  IF body = <<>> \/ ~AllDigits(body) THEN None
        ELSE IF ~FitsIn(body, max) THEN None
        ELSE Some(DigitsValue(body, 0))

\* `second.parse::<f64>()? as u64` for the decimal forms of a float: an
\* optional sign, digits, and an optional "." with further digits.  The cast
\* truncates towards zero and saturates, so a negative value gives 0.  The
\* exponent, "inf" and "nan" forms that f64::from_str also accepts are outside
\* the texts of this model.
ParseTime(s) ==
    LET neg   == s # <<>> /\ Head(s) = "-"
        body  == IF s # <<>> /\ Head(s) \in {"+", "-"} THEN Tail(s) ELSE s
        parts == Split(body, ".")
        int   == parts[1]
        frac  == IF Len(parts) = 2 THEN parts[2] ELSE <<>>
    IN  IF Len(parts) > 2 \/ ~AllDigits(int) \/ ~AllDigits(frac)
           \/ (int = <<>> /\ frac = <<>>)
        THEN None
        ELSE IF neg THEN Some(0)
        ELSE Some(DigitsValue(int, 0))

\* ------------------------------------------------------------------------
\* Manifest parser (mtree.rs)
\* ------------------------------------------------------------------------
K_mode    == <<"m", "o", "d", "e">>
K_gid     == <<"g", "i", "d">>
K_uid     == <<"u", "i", "d">>
K_size    == <<"s", "i", "z", "e">>
K_time    == <<"t", "i", "m", "e">>
K_link    == <<"l", "i", "n", "k">>
K_type    == <<"t", "y", "p", "e">>
K_digest  == <<"d", "i", "g", "e", "s", "t">>
K_md5     == <<"m", "d", "5">>
K_sha256  == <<"s", "h", "a", "2", "5", "6">>
K_file    == <<"f", "i", "l", "e">>
K_dir     == <<"d", "i", "r">>
K_set     == <<"/", "s", "e", "t">>
K_header  == <<"#", "m", "t", "r", "e", "e">>

\* enum FileType; FileType::None is the "unset" type
FileType == {"Directory", "File", "SymbolicLink", "None"}

\* The outcome of a call: a value, an error value, or a panic (the program
\* aborts and the call returns nothing).
Ok(v)      == [kind |-> "Ok", val |-> v]
Err(e)     == [kind |-> "Err", err |-> e]
Panic(why) == [kind |-> "Panic", why |-> why]

\* The values read_mtree keeps across lines, before the first line.
MtreeStart ==
    [mode |-> 0, gid |-> 0, uid |-> 0, filesize |-> 0, ret |-> <<>>,
     status |-> Ok(<<>>)]

\* the mutant of LineStart that resets mode, gid, uid and size on every line
LineStart_reset(st) ==
    [mode |-> 0, gid |-> 0, uid |-> 0, filesize |-> 0,
     filepath |-> None, md5 |-> None, sha256 |-> None, link |-> None,
     time |-> 0, filetype |-> "None", status |-> Ok(<<>>)]

\* The per-line values: mode, gid, uid and size are read_mtree's locals and
\* keep their values; the others are declared anew at the start of every line.
LineStart(st) ==
    [mode |-> st.mode, gid |-> st.gid, uid |-> st.uid, filesize |-> st.filesize,
     filepath |-> None, md5 |-> None, sha256 |-> None, link |-> None,
     time |-> 0, filetype |-> "None", status |-> Ok(<<>>)]

Fail(acc, outcome) == [acc EXCEPT !.status = outcome]

\* A section without "=": a directive, which is skipped, or the path.
PathSection(acc, section) ==
    IF StartsWith(section, K_set) \/ section = K_header THEN acc
    ELSE [acc EXCEPT !.filepath =
             IF StartsWith(section, <<".">>) THEN Some(Tail(section))
             ELSE Some(section)]

\* The digest arm: the key's text before its "digest" suffix names the hash.
DigestSection(acc, first, second) ==
    IF ~EndsWith(first, K_digest) THEN Fail(acc, Panic("strip_suffix unwrap"))
    ELSE LET x == SubSeq(first, 1, Len(first) - Len(K_digest))
         IN  IF x = K_md5 THEN [acc EXCEPT !.md5 = Some(second)]
             ELSE IF x = K_sha256 THEN [acc EXCEPT !.sha256 = Some(second)]
             ELSE Fail(acc, Err("UnknownHash"))

\* The type arm: a value outside file, dir, link formats an error message
\* from filepath.unwrap(), which panics while no path has been read on the line.
TypeSection(acc, second) ==
    IF second = K_file THEN [acc EXCEPT !.filetype = "File"]
    ELSE IF second = K_dir THEN [acc EXCEPT !.filetype = "Directory"]
    ELSE IF second = K_link THEN [acc EXCEPT !.filetype = "SymbolicLink"]
    ELSE IF acc.filepath.some THEN Fail(acc, Err("UnknownFiletype"))
    ELSE Fail(acc, Panic("filepath unwrap"))

NumSection(acc, field, second, max) ==
    LET v == ParseUint(second, max)
    IN  IF v.some THEN [acc EXCEPT ![field] = v.val]
        ELSE Fail(acc, Err("ParseInt"))

\* A section with "=": key and value are the first two pieces around "=".
KeySection(acc, section) ==
    LET it     == Split(section, "=")
        first  == Trim(it[1])
        second == Trim(it[2])
    IN  CASE first = K_mode -> NumSection(acc, "mode", second, U16MaxDigits)
          [] first = K_gid  -> NumSection(acc, "gid", second, U32MaxDigits)
          [] first = K_uid  -> NumSection(acc, "uid", second, U32MaxDigits)
          [] first = K_size -> NumSection(acc, "filesize", second, UsizeMaxDigits)
          [] first = K_time ->
                LET t == ParseTime(second)
                IN  IF t.some THEN [acc EXCEPT !.time = t.val]
                    ELSE Fail(acc, Err("ParseFloat"))
          [] first = K_link -> [acc EXCEPT !.link = Some(second)]
          [] first = K_type -> TypeSection(acc, second)
          [] OTHER ->
                IF Contains(first, K_digest) THEN DigestSection(acc, first, second)
                ELSE Fail(acc, Err("UnknownSection"))

\* One section of a line.
Section(acc, section) ==
    IF ~HasChar(section, "=") THEN PathSection(acc, section)
    ELSE KeySection(acc, section)

\* The sections of a line in order, stopping at the first error or panic.
RECURSIVE Sections(_, _)
Sections(acc, secs) ==
    IF secs = <<>> \/ acc.status.kind # "Ok" THEN acc
    ELSE Sections(Section(acc, Trim(Head(secs))), Tail(secs))

\* struct MTreeEntry, built from the line's values
MTreeEntry(acc) ==
    [filepath |-> acc.filepath.val, md5 |-> acc.md5, sha256 |-> acc.sha256,
     mode |-> acc.mode, gid |-> acc.gid, uid |-> acc.uid, time |-> acc.time,
     filesize |-> acc.filesize, filetype |-> acc.filetype, link |-> acc.link]

\* The end of read_mtree's loop body, with the line's sections read into acc:
\* an error or panic ends the call, else a record is pushed when a path was
\* read and the carried values pass to the next line.
LineEnd(st, acc) ==
    IF acc.status.kind # "Ok"
    THEN [st EXCEPT !.status = acc.status]
    ELSE [mode |-> acc.mode, gid |-> acc.gid, uid |-> acc.uid,
          filesize |-> acc.filesize,
          ret |-> IF acc.filepath.some THEN Append(st.ret, MTreeEntry(acc))
                  ELSE st.ret,
          status |-> Ok(<<>>)]

\* The body of read_mtree's loop for one line: the line is trimmed, split on
\* spaces, its sections are read, and a record is pushed when a path was read.
MtreeLine(st, line) == LineEnd(st, Sections(LineStart(st), Split(Trim(line), SP)))

\* The lines read_mtree iterates over.
MtreeLines(mtree) == Split(Trim(mtree), NL)

RECURSIVE MtreeFold(_, _)
MtreeFold(st, lines) ==
    IF lines = <<>> \/ st.status.kind # "Ok" THEN st
    ELSE MtreeFold(MtreeLine(st, Head(lines)), Tail(lines))

\* what read_mtree returns when its loop has ended in st
MtreeReturn(st) == IF st.status.kind = "Ok" THEN Ok(st.ret) ELSE st.status

\* read_mtree: Ok(records), an error value, or a panic.
read_mtree(mtree) == MtreeReturn(MtreeFold(MtreeStart, MtreeLines(mtree)))

\* ------------------------------------------------------------------------
\* Descriptor parser (desc.rs)
\* ------------------------------------------------------------------------
B_NAME == <<"N", "A", "M", "E">>
B_VERSION == <<"V", "E", "R", "S", "I", "O", "N">>
B_BASE == <<"B", "A", "S", "E">>
B_DESC == <<"D", "E", "S", "C">>
B_URL == <<"U", "R", "L">>
B_ARCH == <<"A", "R", "C", "H">>
B_BUILDDATE == <<"B", "U", "I", "L", "D", "D", "A", "T", "E">>
B_INSTALLDATE == <<"I", "N", "S", "T", "A", "L", "L", "D", "A", "T", "E">>
B_PACKAGER == <<"P", "A", "C", "K", "A", "G", "E", "R">>
B_SIZE == <<"S", "I", "Z", "E">>
B_REASON == <<"R", "E", "A", "S", "O", "N">>
B_LICENSE == <<"L", "I", "C", "E", "N", "S", "E">>
B_VALIDATION == <<"V", "A", "L", "I", "D", "A", "T", "I", "O", "N">>
B_REPLACES == <<"R", "E", "P", "L", "A", "C", "E", "S">>
B_DEPENDS == <<"D", "E", "P", "E", "N", "D", "S">>
B_OPTDEPENDS == <<"O", "P", "T", "D", "E", "P", "E", "N", "D", "S">>
B_PROVIDES == <<"P", "R", "O", "V", "I", "D", "E", "S">>
B_GROUPS == <<"G", "R", "O", "U", "P", "S">>
B_CONFLICTS == <<"C", "O", "N", "F", "L", "I", "C", "T", "S">>
V_any     == <<"a", "n", "y">>
V_x86_64  == <<"x", "8", "6", "_", "6", "4">>
V_pgp     == <<"p", "g", "p">>
V_none    == <<"n", "o", "n", "e">>
\* the value for which PACKAGER is left unset, spelled as in the source
V_unknown == <<"U", "n", "k", "n", "o", "w", "n", " ",
               "p", "a", "c", "a", "k", "g", "e", "r">>
U8MaxDigits == <<"2", "5", "5">>

\* The regex class \w, on the characters of the model's texts: every
\* character of these texts other than the ones listed is a letter, a digit
\* or "_".
NonWord == {"%", " ", "\n", "\t", "\r", "<", ">", ":", "-", ".", "/", "=", "@", "#", "+"}
IsWord(c) == c \notin NonWord

\* The label of a line that ends in %(\w+)%: the line's last character is
\* "%", before it stands a non-empty run of word characters, and before the
\* run a "%".  None when the line does not end so.
LabelOf(line) ==
    LET n     == Len(line)
        stops == {i \in 1..(n - 1) : ~IsWord(line[i])}
        open  == IF stops = {} THEN 0 ELSE CHOOSE i \in stops : \A j \in stops : j <= i
    IN  IF n >= 3 /\ line[n] = "%" /\ open # 0 /\ open < n - 1 /\ line[open] = "%"
        THEN Some(SubSeq(line, open + 1, n - 1))
        ELSE None

\* SPLITTING_REGEX.captures_iter(desc), regex %(\w+)%\n((?:.+\n)+): the
\* matches from left to right, without overlap.  A match is a line ending in
\* a label, followed by as many non-empty newline-terminated lines as there
\* are (at least one); they are the value, newlines included.  pieces are the
\* texts between newlines, so all but the last are newline-terminated lines.
RECURSIVE BlocksFrom(_, _)
BlocksFrom(pieces, i) ==
    LET n     == Len(pieces) - 1
        IsValueLine(k) == k <= n /\ pieces[k] # <<>>
        ends  == {j \in (i + 1)..n : \A k \in (i + 1)..j : IsValueLine(k)}
        last  == CHOOSE j \in ends : \A k \in ends : k <= j
    IN  IF i > n THEN <<>>
        ELSE IF LabelOf(pieces[i]).some /\ ends # {}
             THEN <<[label |-> LabelOf(pieces[i]).val,
                     value |-> JoinEach(SubSeq(pieces, i + 1, last), <<NL>>)]>>
                  \o BlocksFrom(pieces, last + 1)
             ELSE BlocksFrom(pieces, i + 1)

Blocks(text) == BlocksFrom(Split(text, NL), 1)

\* parse_desc's locals before the loop: every field unset.
DescStart ==
    [name |-> None, version |-> None, pkgbase |-> None, description |-> None,
     url |-> None, arch |-> None, build_date |-> None, install_date |-> None,
     packager |-> None, size |-> None, reason |-> None, licences |-> None,
     validation |-> None, replaces |-> None, dependencies |-> None,
     optional_dependencies |-> None, provides |-> None, groups |-> None,
     conflicts |-> None, status |-> Ok(<<>>)]

\* x.as_str().trim().split('\n').map(|l| l.trim().to_owned()).collect()
TrimmedLines(value) ==
    LET ls == Split(Trim(value), NL)
    IN  [k \in 1..Len(ls) |-> Trim(ls[k])]

\* The OPTDEPENDS closure: the line's pieces between colons; the first is the
\* package, the second, when there is one, the reason.
OptionalDependency(line) ==
    LET it == Split(line, ":")
    IN  [package |-> Trim(it[1]),
         reason  |-> IF Len(it) >= 2 THEN Some(Trim(it[2])) ELSE None]

OptionalDependencies(value) ==
    LET ls == Split(Trim(value), NL)
    IN  [k \in 1..Len(ls) |-> OptionalDependency(ls[k])]

\* The PACKAGER closure, as an outcome: the field's new value, or a panic.
\* The name is the text up to one character before the first "<"; with the
\* "<" at index 0 the subtraction underflows: a debug build panics on it, a
\* release build wraps and the slice panics, being out of range.  The email
\* of the Packager is not modelled.
PackagerOf(value) ==
    LET x  == Trim(value)
        lt == {i \in 1..Len(x) : x[i] = "<"}
        \* x.find('<'), as a 0-based index
        found == (CHOOSE i \in lt : \A j \in lt : i <= j) - 1
    IN  IF x = V_unknown THEN Ok(None)
        ELSE IF lt = {} THEN Ok(Some([name |-> Trim(x)]))
        ELSE IF found = 0 THEN Panic("packager name slice")
        ELSE Ok(Some([name |-> Trim(SubSeq(x, 1, found - 1))]))

ParseOk(value, max) ==
    LET v == ParseUint(Trim(value), max)
    IN  IF v.some THEN Some(v.val) ELSE None

\* One iteration of parse_desc's loop: the arm of the block's label.
DescBlock(ds, b) ==
    LET l == b.label
        v == b.value
    IN  CASE l = B_NAME    -> [ds EXCEPT !.name = Some(Trim(v))]
          [] l = B_VERSION -> [ds EXCEPT !.version = Some(Trim(v))]
          [] l = B_BASE    -> [ds EXCEPT !.pkgbase = Some(Trim(v))]
          [] l = B_DESC    -> [ds EXCEPT !.description = Some(Trim(v))]
          [] l = B_URL     -> [ds EXCEPT !.url = Some(Trim(v))]
          [] l = B_ARCH    ->
                IF Trim(v) = V_any THEN [ds EXCEPT !.arch = Some("Any")]
                ELSE IF Trim(v) = V_x86_64 THEN [ds EXCEPT !.arch = Some("x86_64")]
                ELSE [ds EXCEPT !.status = Err("UnexpectedArchitecture")]
          [] l = B_BUILDDATE   -> [ds EXCEPT !.build_date = ParseOk(v, UsizeMaxDigits)]
          [] l = B_INSTALLDATE -> [ds EXCEPT !.install_date = ParseOk(v, UsizeMaxDigits)]
          [] l = B_PACKAGER    ->
                IF PackagerOf(v).kind = "Ok"
                THEN [ds EXCEPT !.packager = PackagerOf(v).val]
                ELSE [ds EXCEPT !.status = PackagerOf(v)]
          [] l = B_SIZE    -> [ds EXCEPT !.size = ParseOk(v, UsizeMaxDigits)]
          [] l = B_REASON  -> [ds EXCEPT !.reason = ParseOk(v, U8MaxDigits)]
          [] l = B_LICENSE -> [ds EXCEPT !.licences = Some(TrimmedLines(v))]
          [] l = B_VALIDATION ->
                IF Trim(v) = V_pgp THEN [ds EXCEPT !.validation = Some("Pgp")]
                ELSE IF Trim(v) = V_none THEN [ds EXCEPT !.validation = Some("None")]
                ELSE [ds EXCEPT !.status = Err("UnexpectedValidation")]
          [] l = B_REPLACES   -> [ds EXCEPT !.replaces = Some(TrimmedLines(v))]
          [] l = B_DEPENDS    -> [ds EXCEPT !.dependencies = Some(TrimmedLines(v))]
          [] l = B_OPTDEPENDS ->
                [ds EXCEPT !.optional_dependencies = Some(OptionalDependencies(v))]
          [] l = B_PROVIDES   -> [ds EXCEPT !.provides = Some(TrimmedLines(v))]
          [] l = B_GROUPS     -> [ds EXCEPT !.groups = Some(TrimmedLines(v))]
          [] l = B_CONFLICTS  -> [ds EXCEPT !.conflicts = Some(TrimmedLines(v))]
          [] OTHER -> [ds EXCEPT !.status = Err("UnknownSection")]

RECURSIVE DescFold(_, _)
DescFold(ds, blocks) ==
    IF blocks = <<>> \/ ds.status.kind # "Ok" THEN ds
    ELSE DescFold(DescBlock(ds, Head(blocks)), Tail(blocks))

UnwrapOr(opt, default) == IF opt.some THEN opt.val ELSE default

\* struct PackageDescription, from the locals after the loop
PackageDescription(ds) ==
    [name |-> ds.name.val, version |-> ds.version.val, pkgbase |-> ds.pkgbase,
     description |-> ds.description, url |-> ds.url, arch |-> ds.arch,
     build_date |-> ds.build_date, install_date |-> ds.install_date,
     packager |-> ds.packager, size |-> ds.size, reason |-> ds.reason,
     licences |-> UnwrapOr(ds.licences, <<>>), validation |-> ds.validation,
     replaces |-> UnwrapOr(ds.replaces, <<>>),
     dependencies |-> UnwrapOr(ds.dependencies, <<>>),
     optional_dependencies |-> UnwrapOr(ds.optional_dependencies, <<>>),
     provides |-> UnwrapOr(ds.provides, <<>>), groups |-> UnwrapOr(ds.groups, <<>>),
     conflicts |-> UnwrapOr(ds.conflicts, <<>>)]

\* the mutant of DescFinish that gives a missing name or version the empty text
DescFinish_default(ds) ==
    Ok(PackageDescription([ds EXCEPT !.name = Some(UnwrapOr(ds.name, <<>>)),
                                     !.version = Some(UnwrapOr(ds.version, <<>>))]))

\* The end of parse_desc: name and version must have been set.
DescFinish(ds) ==
    IF ~ds.name.some THEN Err("MissingName")
    ELSE IF ~ds.version.some THEN Err("MissingVersion")
    ELSE Ok(PackageDescription(ds))

\* what parse_desc returns when its loop has ended in ds
DescReturn(ds) == IF ds.status.kind # "Ok" THEN ds.status ELSE DescFinish(ds)

\* parse_desc: Ok(record), an error value, or a panic.
parse_desc(text) == DescReturn(DescFold(DescStart, Blocks(text)))


\* ------------------------------------------------------------------------
\* LocalDatabaseEntry::files and ::owns (mod.rs)
\* ------------------------------------------------------------------------
RootDir == <<"/">>
CurDir  == <<".">>

RECURSIVE DropEmptyAndDot(_)
DropEmptyAndDot(parts) ==
    IF parts = <<>> THEN <<>>
    ELSE IF Head(parts) = <<>> \/ Head(parts) = CurDir
         THEN DropEmptyAndDot(Tail(parts))
         ELSE <<Head(parts)>> \o DropEmptyAndDot(Tail(parts))

\* std::path::Path::components on Unix: the root, or a leading "." of a
\* relative path, then the non-empty pieces between separators other than ".".
Components(p) ==
    LET parts == Split(p, "/")
        lead  == IF StartsWith(p, <<"/">>) THEN <<RootDir>>
                 ELSE IF Head(parts) = CurDir THEN <<CurDir>>
                 ELSE <<>>
    IN  lead \o DropEmptyAndDot(parts)

\* Path's PartialEq compares the two paths component by component.
PathEq(a, b) == Components(a) = Components(b)

\* LocalDatabaseEntry::files: the paths of the records, in order.
files(self) == [i \in 1..Len(self.mtree) |-> self.mtree[i].filepath]

\* the mutant of owns that compares the path strings
owns_strings(self, file) ==
    \E i \in 1..Len(self.mtree) : self.mtree[i].filepath = file

\* LocalDatabaseEntry::owns
owns(self, file) ==
    \E i \in 1..Len(files(self)) : PathEq(files(self)[i], file)

\* ------------------------------------------------------------------------
\* State
\* ------------------------------------------------------------------------
VARIABLES
    mtree,      \* the manifest text read_mtree was called on
    lineNo,     \* the number of its lines read_mtree's loop has been through
    mt,         \* read_mtree's locals: mode, gid, uid, filesize, ret, and status
    ownsQ,      \* the last owns call on the parsed entry and its answer
    desc,       \* the descriptor text parse_desc was called on
    descRet,    \* parse_desc's outcome, None before the call
    fs,         \* the backing directory, in read_dir order
    db,         \* LocalDatabase.db: package name -> LocalDatabaseEntry
    dirReads,   \* how many times the backing directory has been read
    call,       \* the last database call: its name and argument
    ret,        \* the last database call's outcome
    pre         \* db and dirReads as they were when the last call started

mtVars == <<mtree, lineNo, mt, ownsQ>>
dsVars == <<desc, descRet>>
dbVars == <<fs, db, dirReads, call, ret, pre>>
vars   == <<mtree, lineNo, mt, ownsQ, desc, descRet, fs, db, dirReads, call, ret, pre>>

\* The values of a machine that is not running.
NoCall == [op |-> "none"]
MtIdle == mtree = <<>> /\ lineNo = 0 /\ mt = MtreeStart /\ ownsQ = None
DsIdle == desc = <<>> /\ descRet = None
DbIdle ==
    /\ fs = <<>> /\ db = [n \in {} |-> n] /\ dirReads = 0
    /\ call = NoCall /\ ret = None /\ pre = None

\* ------------------------------------------------------------------------
\* The manifest machine: read_mtree line by line, then owns on its records
\* ------------------------------------------------------------------------
P_foo == <<"/", "u", "s", "r", "/", "b", "i", "n", "/", "f", "o", "o">>
P_bar == <<"/", "u", "s", "r", "/", "b", "i", "n", "/", "b", "a", "r">>
T_foo == <<".">> \o P_foo
T_bar == <<".">> \o P_bar
T_rel == <<"u", "s", "r", "/", "r", "e", "l">>
T_sock == K_type \o <<"=", "s", "o", "c", "k">>
T_typefile == K_type \o <<"=">> \o K_file

\* the two lines of the carry-over example
L1 == JoinWith(<<T_foo, K_mode \o <<"=", "7", "5", "5">>, K_uid \o <<"=", "0">>,
                 K_gid \o <<"=", "0">>, K_time \o <<"=", "1", "2", "3", ".", "0">>,
                 K_size \o <<"=", "1", "0">>, T_typefile>>, SP)
L2 == JoinWith(<<T_bar, K_time \o <<"=", "1", "2", "4", ".", "0">>>>, SP)

ExampleText == JoinEach(<<L1, L2>>, <<NL>>)

\* The lines the manifest texts are made of.
MtreeVocab ==
    { L1, L2,
      \* a directive line
      JoinWith(<<K_set, T_typefile, K_uid \o <<"=", "3">>, K_gid \o <<"=", "4">>,
                 K_mode \o <<"=", "6", "4", "4">>>>, SP),
      \* a blank line
      <<>>,
      \* two spaces between the path and the next section
      JoinWith(<<<<".", "/", "a">>, <<>>, K_size \o <<"=", "7">>>>, SP),
      \* an unknown type before the path, after the path, and without a path
      JoinWith(<<T_sock, <<".", "/", "s">>>>, SP),
      JoinWith(<<<<".", "/", "s">>, T_sock>>, SP),
      JoinWith(<<K_set, T_sock>>, SP),
      \* a symbolic link with a hash
      JoinWith(<<<<".", "/", "l">>, K_type \o <<"=">> \o K_link,
                 K_link \o <<"=", "b">>, K_md5 \o K_digest \o <<"=", "c">>>>, SP),
      \* a path without the leading "."
      JoinWith(<<T_rel, K_uid \o <<"=", "5">>>>, SP),
      \* a mode that is no number
      JoinWith(<<<<".", "/", "x">>, K_mode \o <<"=", "a">>>>, SP) }

MtreeTexts ==
    { JoinEach(ls, <<NL>>) : ls \in UNION { [1..n -> MtreeVocab] : n \in 0..MaxLines } }

\* The paths owns is asked about.
OwnsQueries ==
    { P_foo, P_foo \o <<"/">>, P_foo \o <<"b">>, P_foo \o <<"/", "b">>,
      <<"/", "u", "s", "r", "/", "/", "b", "i", "n", "/", "f", "o", "o">>,
      <<"/", "u", "s", "r", "/", "b", "i", "n">>,
      <<"/", "u", "s", "r", "/", "b", "i", "n", "/", ".", "/", "f", "o", "o">>,
      T_rel, <<".", "/">> \o T_rel, <<>>, <<"/">> }

\* The record a descriptor with only NAME and VERSION parses to is defined
\* with parse_desc below; owns reads the entry's manifest records only.
MtreeEntryOf(records) == [mtree |-> records]

MtreeDone == mt.status.kind = "Ok" /\ lineNo = Len(MtreeLines(mtree))

InitMtree ==
    /\ mtree \in MtreeTexts
    /\ lineNo = 0 /\ mt = MtreeStart /\ ownsQ = None
    /\ DsIdle /\ DbIdle

\* one iteration of read_mtree's loop over the lines
ParseLine ==
    /\ mt.status.kind = "Ok"
    /\ lineNo < Len(MtreeLines(mtree))
    /\ mt' = MtreeLine(mt, MtreeLines(mtree)[lineNo + 1])
    /\ lineNo' = lineNo + 1
    /\ UNCHANGED <<mtree, ownsQ, dsVars, dbVars>>

\* owns on the entry whose records read_mtree returned
OwnsCall ==
    /\ MtreeDone
    /\ ownsQ = None
    /\ \E file \in OwnsQueries :
          ownsQ' = Some([file |-> file, result |-> owns(MtreeEntryOf(mt.ret), file)])
    /\ UNCHANGED <<mtree, lineNo, mt, dsVars, dbVars>>

NextMtree == ParseLine \/ OwnsCall

SpecMtree == InitMtree /\ [][NextMtree]_vars

\* ------------------------------------------------------------------------
\* The descriptor machine: parse_desc on one text
\* ------------------------------------------------------------------------
\* Longest descriptor text, in chunks, that parse_desc is called on.
MaxChunks == 3

N_foo == <<"f", "o", "o">>

\* The chunks the descriptor texts are made of.
DescVocab ==
    {
      \* a NAME block
      JoinEach(<<<<"%">> \o B_NAME \o <<"%">>, N_foo, <<>>>>, <<NL>>),
      \* a VERSION block
      JoinEach(<<<<"%">> \o B_VERSION \o <<"%">>, <<"1", ".", "0", "-", "1">>, <<>>>>, <<NL>>),
      \* a NAME block that no blank line ends
      JoinEach(<<<<"%">> \o B_NAME \o <<"%">>, N_foo>>, <<NL>>),
      \* a VERSION label without a value line
      JoinEach(<<<<"%">> \o B_VERSION \o <<"%">>, <<>>>>, <<NL>>),
      \* a list block
      JoinEach(<<<<"%">> \o B_DEPENDS \o <<"%">>, <<"g", "l", "i", "b", "c">>, <<" ", "b", "a", "s", "h">>, <<>>>>, <<NL>>),
      \* an architecture outside the enumeration
      JoinEach(<<<<"%">> \o B_ARCH \o <<"%">>, <<"m", "i", "p", "s">>, <<>>>>, <<NL>>),
      \* a label outside the known ones
      JoinEach(<<<<"%", "F", "O", "O", "%">>, <<"x">>, <<>>>>, <<NL>>),
      \* a packager with a name
      JoinEach(<<<<"%">> \o B_PACKAGER \o <<"%">>, <<"J", "o", "e", " ", "<", "j", "@", "x", ".", "o", "r", "g", ">">>, <<>>>>, <<NL>>),
      \* a packager whose address follows the name directly
      JoinEach(<<<<"%">> \o B_PACKAGER \o <<"%">>, <<"J", "o", "e", "<", "j", "@", "x", ".", "o", "r", "g", ">">>, <<>>>>, <<NL>>),
      \* a packager that starts with the address
      JoinEach(<<<<"%">> \o B_PACKAGER \o <<"%">>, <<"<", "j", "@", "x", ".", "o", "r", "g", ">">>, <<>>>>, <<NL>>),
      \* a size that is no number
      JoinEach(<<<<"%">> \o B_SIZE \o <<"%">>, <<"b", "i", "g">>, <<>>>>, <<NL>>),
      \* optional dependencies, with and without a reason
      JoinEach(<<<<"%">> \o B_OPTDEPENDS \o <<"%">>, <<"g", "i", "t", ":", " ", "f", "o", "r", " ", "x", ":", " ", "y">>, <<"v", "i", "m">>, <<>>>>, <<NL>>) }

RECURSIVE Concat(_)
Concat(ss) == IF ss = <<>> THEN <<>> ELSE Head(ss) \o Concat(Tail(ss))

DescTexts ==
    { Concat(cs) : cs \in UNION { [1..n -> DescVocab] : n \in 0..MaxChunks } }

InitDesc ==
    /\ desc \in DescTexts /\ descRet = None
    /\ MtIdle /\ DbIdle

ParseDesc ==
    /\ descRet = None
    /\ descRet' = Some(parse_desc(desc))
    /\ UNCHANGED <<desc, mtVars, dbVars>>

NextDesc == ParseDesc

SpecDesc == InitDesc /\ [][NextDesc]_vars

\* ------------------------------------------------------------------------
\* LocalDatabase (mod.rs)
\* ------------------------------------------------------------------------
\* An entry of the backing directory is [file_name, is_dir, desc, mtree]:
\* desc and mtree are the texts of the files of these names inside it, None
\* when there is no such file.  The manifest text is the decompressed one; a
\* stream that does not decompress fails like a missing file, with an io error.

\* read_desc_from_file
read_desc_from_file(file) ==
    IF ~file.some THEN Err("Io") ELSE parse_desc(file.val)

\* read_mtree_from_file
read_mtree_from_file(file) ==
    IF ~file.some THEN Err("Io") ELSE read_mtree(file.val)

\* new_from_directory once the descriptor has been read as description: the
\* Entry of the two, or the manifest's failure.
WithMtree(description, m) ==
    IF m.kind # "Ok" THEN m ELSE Ok([desc |-> description, mtree |-> m.val])

\* new_from_directory once read_desc_from_file has returned d: its failure, or
\* the reading of the manifest.
WithDesc(d, mtreeFile) ==
    IF d.kind # "Ok" THEN d ELSE WithMtree(d.val, read_mtree_from_file(mtreeFile))

\* LocalDatabaseEntry::new_from_directory: asserts that dir is a directory,
\* then reads desc and mtree, propagating the first error.
new_from_directory(dir) ==
    IF ~dir.is_dir THEN Panic("assert is_dir")
    ELSE WithDesc(read_desc_from_file(dir.desc), dir.mtree)

\* is_valid_local_entry_dir
is_valid_local_entry_dir(dir) == dir.is_dir /\ dir.desc.some /\ dir.mtree.some

EmptyDb == [n \in {} |-> n]

\* HashMap::insert: the key's entry is set, replacing the one it had
Insert(map, key, entry) == [n \in DOMAIN map \cup {key} |-> IF n = key THEN entry ELSE map[n]]

\* The outcome of a database call: the map after it, the keys it inserted in
\* order, and what it returned.
Outcome(map, inserted, result) == [db |-> map, inserted |-> inserted, ret |-> result]

\* the mutant of read_pacakge_entry that inserts the first directory whose
\* name starts with package_name, whatever its descriptor's name
read_pacakge_noname(dirs, map, package_name, i, entry) ==
    IF entry.kind # "Ok" THEN Outcome(map, <<>>, entry)
    ELSE Outcome(Insert(map, package_name, entry.val), <<package_name>>, Ok(entry.val))

RECURSIVE read_pacakge_from(_, _, _, _)

\* the mutant of read_pacakge_entry that passes over an entry that fails to
\* read, as it passes over one with another descriptor name
read_pacakge_lenient(dirs, map, package_name, i, entry) ==
    IF entry.kind # "Ok" \/ entry.val.desc.name # package_name
    THEN read_pacakge_from(dirs, map, package_name, i + 1)
    ELSE Outcome(Insert(map, package_name, entry.val),
                 <<package_name>>, Ok(entry.val))

\* read_pacakge's loop body for the i-th entry of the directory, whose name
\* starts with package_name and which new_from_directory read as entry.
read_pacakge_entry(dirs, map, package_name, i, entry) ==
    IF entry.kind # "Ok" THEN Outcome(map, <<>>, entry)
    ELSE IF entry.val.desc.name # package_name
         THEN read_pacakge_from(dirs, map, package_name, i + 1)
         ELSE Outcome(Insert(map, package_name, entry.val),
                      <<package_name>>, Ok(entry.val))

\* read_pacakge's loop from the i-th entry of the directory on.
read_pacakge_from(dirs, map, package_name, i) ==
    IF i > Len(dirs) THEN Outcome(map, <<>>, Err("NotFound"))
    ELSE IF StartsWith(dirs[i].file_name, package_name)
         THEN read_pacakge_entry(dirs, map, package_name, i,
                                 new_from_directory(dirs[i]))
         ELSE read_pacakge_from(dirs, map, package_name, i + 1)

\* LocalDatabase::read_pacakge
read_pacakge(dirs, map, package_name) == read_pacakge_from(dirs, map, package_name, 1)

\* the mutant of populate_candidate that matches the query against the start
\* of the directory name
populate_candidate_prefix(dir, query) ==
    is_valid_local_entry_dir(dir) /\ StartsWith(dir.file_name, query)

\* populate's filter: the directories it tries to read
populate_candidate(dir, query) ==
    is_valid_local_entry_dir(dir) /\ Contains(dir.file_name, query)

RECURSIVE populate_from(_, _, _, _, _)

\* populate's closure for the i-th entry of the directory, a candidate that
\* new_from_directory read as x: an Entry is inserted under its descriptor's
\* name, an error leaves the candidate out, and a panic ends the call.
populate_entry(dirs, map, inserted, query, i, x) ==
    IF x.kind = "Panic" THEN Outcome(map, inserted, x)
    ELSE IF x.kind = "Err"
         THEN populate_from(dirs, map, inserted, query, i + 1)
         ELSE populate_from(dirs, Insert(map, x.val.desc.name, x.val),
                            Append(inserted, x.val.desc.name), query, i + 1)

\* populate's extend from the i-th entry of the directory on.
populate_from(dirs, map, inserted, query, i) ==
    IF i > Len(dirs) THEN Outcome(map, inserted, Ok(<<>>))
    ELSE IF populate_candidate(dirs[i], query)
         THEN populate_entry(dirs, map, inserted, query, i, new_from_directory(dirs[i]))
         ELSE populate_from(dirs, map, inserted, query, i + 1)

\* LocalDatabase::populate
populate(dirs, map, query) == populate_from(dirs, map, <<>>, query, 1)

\* the mutant of get_cached that never finds the name in the cache
get_cached_never(map, package_name) == FALSE

\* get's test: whether the name is in the cache
get_cached(map, package_name) == package_name \in DOMAIN map

\* ------------------------------------------------------------------------
\* The database machine: calls on one LocalDatabase over a fixed directory
\* ------------------------------------------------------------------------
\* Most entries in the backing directory.
MaxDirs == 2
\* Most reads of the backing directory in one run.
MaxScans == 2

DescOf(name, version) ==
    JoinEach(<<<<"%">> \o B_NAME \o <<"%">>, name, <<>>,
               <<"%">> \o B_VERSION \o <<"%">>, version, <<>>>>, <<NL>>)

N_linux  == <<"l", "i", "n", "u", "x">>
N_vim    == <<"v", "i", "m">>
N_foobar == <<"f", "o", "o", "b", "a", "r">>
Q_li     == <<"l", "i">>
Q_oo     == <<"o", "o">>

Dir(file_name, descFile, mtreeFile) ==
    [file_name |-> file_name, is_dir |-> TRUE, desc |-> descFile, mtree |-> mtreeFile]

\* two short manifests
M_one == <<".", "/", "a", " ">> \o K_mode \o <<"=", "6", "4", "4">>
M_two == M_one \o <<NL, ".", "/", "b", NL>>

\* the packages of the examples
D_linux  == Dir(<<"l", "i", "n", "u", "x", "-", "5", ".", "1", "1", ".", "6", "-", "1">>,
                Some(DescOf(N_linux, <<"5", ".", "1", "1", ".", "6", "-", "1">>)), Some(M_two))
D_vim    == Dir(<<"v", "i", "m", "-", "8", "-", "1">>,
                Some(DescOf(N_vim, <<"8", "-", "1">>)), Some(M_one))
D_foobar == Dir(<<"f", "o", "o", "b", "a", "r", "-", "1", ".", "0", "-", "1">>,
                Some(DescOf(N_foobar, <<"1", ".", "0", "-", "1">>)), Some(M_one))
D_foo    == Dir(<<"f", "o", "o", "-", "2", "-", "1">>,
                Some(DescOf(N_foo, <<"2", "-", "1">>)), Some(M_one))
\* an older directory of a package
D_linux_old == Dir(<<"l", "i", "n", "u", "x", "-", "5", ".", "1", "0", "-", "1">>,
                   Some(DescOf(N_linux, <<"5", ".", "1", "0", "-", "1">>)), Some(M_one))
\* a descriptor without a version
D_vim_noversion ==
    Dir(<<"v", "i", "m", "-", "7", "-", "1">>,
        Some(JoinEach(<<<<"%">> \o B_NAME \o <<"%">>, N_vim, <<>>>>, <<NL>>)), Some(M_one))
\* a manifest with an unknown type before the path
D_foo_badtype ==
    Dir(<<"f", "o", "o", "-", "1", "-", "1">>,
        Some(DescOf(N_foo, <<"1", "-", "1">>)),
        Some(JoinWith(<<T_sock, <<".", "/", "s">>>>, SP)))
\* a directory without a manifest
D_nomtree ==
    Dir(<<"l", "i", "n", "u", "x", "-", "l", "t", "s">>,
        Some(DescOf(<<"l", "i", "n", "u", "x", "-", "l", "t", "s">>, <<"5", ".", "4", "-", "1">>)), None)
\* a plain file
F_plain ==
    [file_name |-> <<"f", "o", "o", ".", "t", "x", "t">>, is_dir |-> FALSE,
     desc |-> None, mtree |-> None]

\* The entries the backing directory is made of.
Catalogue ==
    {D_linux, D_vim, D_foobar, D_foo, D_linux_old, D_vim_noversion,
     D_foo_badtype, D_nomtree, F_plain}

Injective(f) == \A i, j \in DOMAIN f : f[i] = f[j] => i = j

\* the directory listings: up to MaxDirs different entries, in any order
Listings ==
    { l \in UNION { [1..n -> Catalogue] : n \in 0..MaxDirs } : Injective(l) }

\* the names asked for and the queries
Names   == {N_foo, N_linux, N_vim}
Queries == {<<>>, Q_li, Q_oo}

Init ==
    /\ fs \in Listings
    /\ db = EmptyDb /\ dirReads = 0
    /\ call = NoCall /\ ret = None /\ pre = None
    /\ MtIdle /\ DsIdle

\* the program is running: the last call, if any, did not panic
Running == ret.some => ret.val.kind # "Panic"

Snapshot == Some([db |-> db, dirReads |-> dirReads])

Returned(op, arg, inserted, result) ==
    /\ call' = [op |-> op, arg |-> arg, inserted |-> inserted]
    /\ ret' = Some(result)
    /\ pre' = Snapshot

\* a call that reads the backing directory once
Scanned(op, arg, out) ==
    /\ db' = out.db
    /\ dirReads' = dirReads + 1
    /\ Returned(op, arg, out.inserted, out.ret)

\* LocalDatabase::get
Get ==
    /\ Running
    /\ \E package_name \in Names :
          IF get_cached(db, package_name)
          THEN /\ Returned("get", package_name, <<>>, Ok(db[package_name]))
               /\ UNCHANGED <<db, dirReads>>
          ELSE /\ dirReads < MaxScans
               /\ Scanned("get", package_name, read_pacakge(fs, db, package_name))
    /\ UNCHANGED <<fs, mtVars, dsVars>>

\* LocalDatabase::read_pacakge, called directly
ReadPacakge ==
    /\ Running
    /\ dirReads < MaxScans
    /\ \E package_name \in Names :
          Scanned("read_pacakge", package_name, read_pacakge(fs, db, package_name))
    /\ UNCHANGED <<fs, mtVars, dsVars>>

\* LocalDatabase::populate
Populate ==
    /\ Running
    /\ dirReads < MaxScans
    /\ \E query \in Queries \ {<<>>} :
          Scanned("populate", query, populate(fs, db, query))
    /\ UNCHANGED <<fs, mtVars, dsVars>>

\* LocalDatabase::populate_full_database
PopulateFullDatabase ==
    /\ Running
    /\ dirReads < MaxScans
    /\ Scanned("populate", <<>>, populate(fs, db, <<>>))
    /\ UNCHANGED <<fs, mtVars, dsVars>>

Next == Get \/ ReadPacakge \/ Populate \/ PopulateFullDatabase

Spec == Init /\ [][Next]_vars


\* ------------------------------------------------------------------------
\* Properties of the descriptor parser
\* ------------------------------------------------------------------------
LabelsOf(blocks) == {blocks[k].label : k \in 1..Len(blocks)}

MissingField == {Err("MissingName"), Err("MissingVersion")}

\* the labels of the list fields and of the scalar fields, with their fields
ListFields ==
    {<<B_LICENSE, "licences">>, <<B_REPLACES, "replaces">>,
     <<B_DEPENDS, "dependencies">>, <<B_OPTDEPENDS, "optional_dependencies">>,
     <<B_PROVIDES, "provides">>, <<B_GROUPS, "groups">>, <<B_CONFLICTS, "conflicts">>}
ScalarFields ==
    {<<B_BASE, "pkgbase">>, <<B_DESC, "description">>, <<B_URL, "url">>,
     <<B_ARCH, "arch">>, <<B_BUILDDATE, "build_date">>,
     <<B_INSTALLDATE, "install_date">>, <<B_PACKAGER, "packager">>,
     <<B_SIZE, "size">>, <<B_REASON, "reason">>, <<B_VALIDATION, "validation">>}
KnownLabels ==
    {B_NAME, B_VERSION} \cup {f[1] : f \in ListFields} \cup {f[1] : f \in ScalarFields}

\* absent labels leave list fields empty and scalar fields absent
AbsentFieldsDefault(labels, r) ==
    /\ \A f \in ListFields : f[1] \notin labels => r[f[2]] = <<>>
    /\ \A f \in ScalarFields : f[1] \notin labels => r[f[2]] = None

\* a recognised block that its arm accepts: a known label, an ARCH or
\* VALIDATION value of the enumeration, a PACKAGER value not starting with "<"
BlockAccepted(b) ==
    /\ b.label \in KnownLabels
    /\ b.label = B_ARCH => Trim(b.value) \in {V_any, V_x86_64}
    /\ b.label = B_VALIDATION => Trim(b.value) \in {V_pgp, V_none}
    /\ b.label = B_PACKAGER => Head(Trim(b.value)) # "<"
AllBlocksAccepted(blocks) == \A k \in 1..Len(blocks) : BlockAccepted(blocks[k])

LacksMandatory(labels) == B_NAME \notin labels \/ B_VERSION \notin labels

\* C10 as stated: a text in which no NAME block or no VERSION block is
\* recognised makes parse_desc fail with a missing-field error; a text with
\* both that parses has empty list fields and absent scalar fields for the
\* labels it lacks.
C10_MissingFieldError ==
    descRet.some =>
        LET labels == LabelsOf(Blocks(desc))
        IN  /\ LacksMandatory(labels) => descRet.val \in MissingField
            /\ descRet.val.kind = "Ok" => AbsentFieldsDefault(labels, descRet.val.val)

\* C10 as amended: such a text never yields a record; the failure is the
\* missing-field error whenever every recognised block is accepted by its
\* arm, and otherwise the failure of the first block that is not (a format
\* error, or the abort in the PACKAGER arm); a text with both that parses has
\* empty list fields and absent scalar fields for the labels it lacks.
C10_NoRecordWithoutNameVersion ==
    descRet.some =>
        LET blocks == Blocks(desc)
            labels == LabelsOf(blocks)
        IN  /\ LacksMandatory(labels) =>
                  /\ descRet.val.kind # "Ok"
                  /\ AllBlocksAccepted(blocks) => descRet.val \in MissingField
                  /\ ~AllBlocksAccepted(blocks) => descRet.val \notin MissingField
            /\ descRet.val.kind = "Ok" =>
                  /\ ~LacksMandatory(labels)
                  /\ AbsentFieldsDefault(labels, descRet.val.val)

\* C10 witness: parse_desc has failed with the missing-field error on a text
\* with a NAME block and no recognised VERSION block.
C10_Witness ==
    /\ descRet.some
    /\ descRet.val = Err("MissingVersion")
    /\ B_NAME \in LabelsOf(Blocks(desc)) /\ B_VERSION \notin LabelsOf(Blocks(desc))

\* ------------------------------------------------------------------------
\* Properties of the manifest parser and of owns
\* ------------------------------------------------------------------------
\* The sections of a line, and what a line says by itself.
TokensOf(line) ==
    LET parts == Split(Trim(line), SP)
    IN  [k \in 1..Len(parts) |-> Trim(parts[k])]
\* the sections of each of the lines read so far
ReadTokens ==
    LET lines == MtreeLines(mtree)
    IN  [i \in 1..lineNo |-> TokensOf(lines[i])]
KeyOf(tok)     == Trim(Split(tok, "=")[1])
ValueOf(tok)   == Trim(Split(tok, "=")[2])
KeyTokens(toks, key) ==
    {k \in 1..Len(toks) : HasChar(toks[k], "=") /\ KeyOf(toks[k]) = key}
PathTokens(toks) ==
    {k \in 1..Len(toks) :
        ~HasChar(toks[k], "=") /\ ~StartsWith(toks[k], K_set) /\ toks[k] # K_header}
LastOf(S) == CHOOSE k \in S : \A j \in S : j <= k
Supplies(toks, key) == KeyTokens(toks, key) # {}
OwnValue(toks, key) == ValueOf(toks[LastOf(KeyTokens(toks, key))])
OwnPath(toks) ==
    LET tok == toks[LastOf(PathTokens(toks))]
    IN  IF StartsWith(tok, <<".">>) THEN Tail(tok) ELSE tok

\* The value of a carried key after line i: the line's own, else the one
\* resolved for the line before; 0 before the first line.
RECURSIVE Resolved(_, _, _)
Resolved(rt, i, key) ==
    IF i = 0 THEN 0
    ELSE IF Supplies(rt[i], key)
         THEN ParseUint(OwnValue(rt[i], key), UsizeMaxDigits).val
         ELSE Resolved(rt, i - 1, key)

EmitLines(rt) == {i \in DOMAIN rt : PathTokens(rt[i]) # {}}
\* the line the k-th record comes from
EmitLine(rt, k) ==
    LET E == EmitLines(rt)
    IN  CHOOSE i \in E : Cardinality({j \in E : j <= i}) = k

OwnTypeOf(toks) ==
    LET v == OwnValue(toks, K_type)
    IN  IF v = K_file THEN "File" ELSE IF v = K_dir THEN "Directory" ELSE "SymbolicLink"

RecordFollowsLaw(r, rt, i) ==
    LET toks == rt[i]
    IN  /\ r.mode = Resolved(rt, i, K_mode)
        /\ r.gid = Resolved(rt, i, K_gid)
        /\ r.uid = Resolved(rt, i, K_uid)
        /\ r.filesize = Resolved(rt, i, K_size)
        /\ r.filepath = OwnPath(toks)
        /\ r.time = IF Supplies(toks, K_time)
                    THEN ParseTime(OwnValue(toks, K_time)).val ELSE 0
        /\ r.filetype = IF Supplies(toks, K_type) THEN OwnTypeOf(toks) ELSE "None"
        /\ r.link = IF Supplies(toks, K_link) THEN Some(OwnValue(toks, K_link)) ELSE None
        /\ r.md5 = IF Supplies(toks, K_md5 \o K_digest)
                   THEN Some(OwnValue(toks, K_md5 \o K_digest)) ELSE None
        /\ r.sha256 = IF Supplies(toks, K_sha256 \o K_digest)
                      THEN Some(OwnValue(toks, K_sha256 \o K_digest)) ELSE None

\* C7: every emitted record has the mode, gid, uid and size of its own line
\* when the line supplies them and the previous line's resolved value (0 at
\* the start) otherwise, while its path, hashes, type, link target and time
\* are its own line's or unset (time 0, type None); on the two example lines
\* the second record has mode 755, uid 0, gid 0, size 10, its own path and
\* time 124.
C7_CarryOver ==
    mt.status.kind = "Ok" =>
        LET rt == ReadTokens
        IN  /\ Len(mt.ret) = Cardinality(EmitLines(rt))
            /\ \A k \in 1..Len(mt.ret) : RecordFollowsLaw(mt.ret[k], rt, EmitLine(rt, k))
            /\ (mtree = ExampleText /\ lineNo = 2) =>
                  /\ Len(mt.ret) = 2
                  /\ mt.ret[2].mode = 755 /\ mt.ret[2].uid = 0 /\ mt.ret[2].gid = 0
                  /\ mt.ret[2].filesize = 10 /\ mt.ret[2].time = 124
                  /\ mt.ret[2].filepath = P_bar /\ mt.ret[2].filetype = "None"

\* C7 witness: a record whose line supplies no mode and no size has been
\* emitted with a mode and a size carried over from an earlier line.
C7_Witness ==
    /\ mt.status.kind = "Ok"
    /\ LET rt == ReadTokens
       IN  \E k \in 1..Len(mt.ret) :
              /\ mt.ret[k].mode = 755 /\ mt.ret[k].filesize = 10
              /\ mt.ret[k].time = 124
              /\ ~Supplies(rt[EmitLine(rt, k)], K_mode)
              /\ ~Supplies(rt[EmitLine(rt, k)], K_size)

\* C8: every record the manifest parser emits has a path that begins
\* with "/".
C8_AbsolutePaths ==
    \A k \in 1..Len(mt.ret) : StartsWith(mt.ret[k].filepath, <<"/">>)

\* a type= token whose value is none of file, dir, link
BadType(toks) ==
    \E k \in KeyTokens(toks, K_type) : ValueOf(toks[k]) \notin {K_file, K_dir, K_link}

\* C9: once a line with a type= token of unknown value has been read,
\* wherever the token stands on the line, parsing has returned an error value.
C9_UnknownTypeIsError ==
    (\E i \in 1..lineNo : BadType(ReadTokens[i])) => mt.status.kind = "Err"

\* A path with repeated separators, "." pieces after the first and trailing
\* separators rewritten away, one rewrite at a time.
RECURSIVE Canon(_)
Canon(p) ==
    LET n     == Len(p)
        dbl   == {i \in 1..(n - 1) : SubSeq(p, i, i + 1) = <<"/", "/">>}
        dot   == {i \in 1..(n - 2) : SubSeq(p, i, i + 2) = <<"/", ".", "/">>}
        cut(i, len) == SubSeq(p, 1, i) \o SubSeq(p, i + len + 1, n)
    IN  IF dbl # {} THEN Canon(cut(LastOf(dbl), 1))
        ELSE IF dot # {} THEN Canon(cut(LastOf(dot), 2))
        ELSE IF n > 1 /\ EndsWith(p, <<"/", ".">>) THEN Canon(SubSeq(p, 1, n - 1))
        ELSE IF n > 1 /\ p[n] = "/" THEN Canon(SubSeq(p, 1, n - 1))
        ELSE p

\* C6 as stated: owns is true exactly when some record's path string equals
\* the queried path string.
C6_ExactStringMatch ==
    ownsQ.some =>
        (ownsQ.val.result <=> \E k \in 1..Len(mt.ret) : mt.ret[k].filepath = ownsQ.val.file)

\* C6 as amended: owns is true exactly when some record's path equals the
\* queried path once repeated separators, "." pieces and trailing separators
\* are dropped from both; an equal string is enough, and a path that extends
\* an owned path by further characters of a name is not owned.
C6_PathMatch ==
    ownsQ.some =>
        /\ ownsQ.val.result <=>
              \E k \in 1..Len(mt.ret) : Canon(mt.ret[k].filepath) = Canon(ownsQ.val.file)
        /\ (\E k \in 1..Len(mt.ret) : mt.ret[k].filepath = ownsQ.val.file)
              => ownsQ.val.result
        /\ (ownsQ.val.file = P_foo \o <<"b">>) => ~ownsQ.val.result

\* C6 witness: owns has answered true for a path that no record's string
\* equals (the owned path with a trailing separator).
C6_Witness ==
    /\ ownsQ.some /\ ownsQ.val.result
    /\ ownsQ.val.file = P_foo \o <<"/">>
    /\ \A k \in 1..Len(mt.ret) : mt.ret[k].filepath # ownsQ.val.file

\* ------------------------------------------------------------------------
\* Properties of the database
\* ------------------------------------------------------------------------
KeysOf(seq) == {seq[k] : k \in 1..Len(seq)}
Lookups == {"get", "read_pacakge"}

\* C1: a name that was in the cache when a call started is still in it when
\* the call has returned, mapped to the same Entry, and the call has not
\* inserted an Entry under it.
C1_NeverReplaced ==
    pre.some =>
        \A n \in DOMAIN pre.val.db :
            /\ n \in DOMAIN db
            /\ db[n] = pre.val.db[n]
            /\ n \notin KeysOf(call.inserted)

\* C2: a get of a name that is in the cache returns the cached Entry as it
\* stands, reads the backing directory not once (the read counter is what it
\* was) and leaves the cache as it was.
C2_WarmGet ==
    (call.op = "get" /\ call.arg \in DOMAIN pre.val.db) =>
        /\ ret.val = Ok(pre.val.db[call.arg])
        /\ dirReads = pre.val.dirReads
        /\ db = pre.val.db
        /\ call.inserted = <<>>

\* C2 witness: a get has returned an Entry that an earlier call had cached.
C2_Witness ==
    /\ call.op = "get" /\ call.arg \in DOMAIN pre.val.db
    /\ pre.val.dirReads > 0
    /\ ret.val.kind = "Ok"

\* C3: a lookup returns and inserts only an Entry whose descriptor name is
\* the name asked for, under that name; when the directory holds only
\* foobar-1.0-1, whose descriptor name is foobar, the lookup of foo fails
\* with the not-found error and inserts nothing.
C3_ExactMatch ==
    call.op \in Lookups =>
        /\ ret.val.kind = "Ok" => ret.val.val.desc.name = call.arg
        /\ \A n \in KeysOf(call.inserted) : n = call.arg /\ db[n].desc.name = call.arg
        /\ \A n \in DOMAIN db \ DOMAIN pre.val.db : db[n].desc.name = call.arg
        /\ (fs = <<D_foobar>> /\ call.arg = N_foo) =>
              ret.val = Err("NotFound") /\ db = pre.val.db

\* C3 witness: foo has been looked up in a directory that holds only
\* foobar-1.0-1, and the lookup has failed with the not-found error.
C3_Witness ==
    /\ call.op = "get" /\ call.arg = N_foo
    /\ fs = <<D_foobar>>
    /\ ret.val = Err("NotFound")

\* The directories populate(query) is to insert: the valid ones (a directory
\* with a desc and an mtree file) whose name has query inside it and which
\* read without an error.
Readable(dirs, query) ==
    {i \in 1..Len(dirs) :
        /\ dirs[i].is_dir /\ dirs[i].desc.some /\ dirs[i].mtree.some
        /\ \E k \in 0..(Len(dirs[i].file_name) - Len(query)) :
              SubSeq(dirs[i].file_name, k + 1, k + Len(query)) = query
        /\ new_from_directory(dirs[i]).kind = "Ok"}
NameOfDir(dirs, i) == new_from_directory(dirs[i]).val.desc.name
\* the last of the directories S that has the descriptor name n
LastNamed(dirs, S, n) ==
    CHOOSE i \in S : NameOfDir(dirs, i) = n
                     /\ \A j \in S : NameOfDir(dirs, j) = n => j <= i

\* C4: a populate(query) that returns leaves in the cache, beside what was
\* in it, exactly the Entries of the valid directories whose name contains
\* query, each under its descriptor name (the last one read, when two have
\* one name), and nothing of any other directory; with the empty query every
\* valid directory is a candidate; populate("li") over linux-5.11.6-1 and
\* vim-8-1 on an empty cache leaves only linux in it.
C4_PopulateExact ==
    (call.op = "populate" /\ ret.val.kind = "Ok") =>
        LET S     == Readable(fs, call.arg)
            names == {NameOfDir(fs, i) : i \in S}
        IN  /\ DOMAIN db = DOMAIN pre.val.db \cup names
            /\ \A n \in names : db[n] = new_from_directory(fs[LastNamed(fs, S, n)]).val
            /\ \A n \in DOMAIN db \ names : db[n] = pre.val.db[n]
            /\ KeysOf(call.inserted) = names
            /\ call.arg = <<>> =>
                  \A i \in 1..Len(fs) :
                      (is_valid_local_entry_dir(fs[i])
                          /\ new_from_directory(fs[i]).kind = "Ok")
                      => NameOfDir(fs, i) \in DOMAIN db
            /\ (KeysOf(fs) = {D_linux, D_vim} /\ call.arg = Q_li
                   /\ pre.val.db = EmptyDb) => DOMAIN db = {N_linux}

\* C4 witness: populate("li") has returned over linux-5.11.6-1 and vim-8-1
\* on an empty cache, and the cache holds linux only.
C4_Witness ==
    /\ call.op = "populate" /\ call.arg = Q_li /\ ret.val.kind = "Ok"
    /\ fs = <<D_vim, D_linux>> /\ pre.val.db = EmptyDb
    /\ DOMAIN db = {N_linux}

\* C5: populate returns success whatever fails to parse among its
\* candidates, and every other matching valid directory is in the cache
\* afterwards.
C5_Lenient ==
    call.op = "populate" =>
        /\ ret.val = Ok(<<>>)
        /\ \A i \in Readable(fs, call.arg) : NameOfDir(fs, i) \in DOMAIN db

\* a get of a name that was not in the cache when the call started
ColdGet == call.op = "get" /\ call.arg \notin DOMAIN pre.val.db

\* C11: a get on a cold cache returns an Entry or an error value, whatever
\* the backing directory holds (plain files, directories without desc or
\* mtree, under names that start with the name asked for): it never aborts.
C11_LookupNeverAborts ==
    ColdGet => ret.val.kind \in {"Ok", "Err"}

\* The directories that hold the package n: valid ones that read without a
\* failure and whose descriptor name is n.
Holding(dirs, n) ==
    {i \in 1..Len(dirs) :
        /\ is_valid_local_entry_dir(dirs[i])
        /\ new_from_directory(dirs[i]).kind = "Ok"
        /\ NameOfDir(dirs, i) = n}

\* C12: a get on a cold cache of a name that some valid, parseable directory
\* of the store has as its descriptor name returns an Entry of that name and
\* leaves it in the cache under the name, whatever entries whose names start
\* with the name come earlier in the scan.
C12_FindsValidDirectory ==
    (ColdGet /\ Holding(fs, call.arg) # {}) =>
        /\ ret.val.kind = "Ok"
        /\ ret.val.val.desc.name = call.arg
        /\ call.arg \in DOMAIN db
        /\ db[call.arg] = ret.val.val

\* The entries a lookup of n tries to read, and among them the first that
\* decides the lookup: one that fails to read, or one whose descriptor name
\* is n.
Tried(dirs, n) == {i \in 1..Len(dirs) : StartsWith(dirs[i].file_name, n)}
Decides(dirs, n, i) ==
    \/ new_from_directory(dirs[i]).kind # "Ok"
    \/ NameOfDir(dirs, i) = n
Deciding(dirs, n) == {i \in Tried(dirs, n) : Decides(dirs, n, i)}
FirstDeciding(dirs, n) ==
    CHOOSE i \in Deciding(dirs, n) : \A j \in Deciding(dirs, n) : i <= j

\* C12, as the code has it: a get on a cold cache is decided by the first
\* entry, among those whose names start with the name, that fails to read or
\* has the name as its descriptor name.  Without such an entry it fails with
\* the not-found error; a failure of that entry (an error value or an abort)
\* is the outcome of the get and the cache is as it was; else its Entry is
\* returned and inserted under the name.  Entries with another descriptor
\* name that come earlier are passed over.
C12_FirstDecidingEntry ==
    ColdGet =>
        LET n == call.arg
            x == new_from_directory(fs[FirstDeciding(fs, n)])
        IN  IF Deciding(fs, n) = {}
            THEN ret.val = Err("NotFound") /\ db = pre.val.db
            ELSE IF x.kind # "Ok"
                 THEN ret.val = x /\ db = pre.val.db
                 ELSE /\ ret.val = x
                      /\ db = Insert(pre.val.db, n, x.val)
                      /\ call.inserted = <<n>>

\* C12 witness: a get of foo on a cold cache has passed over foobar-1.0-1 and
\* returned the Entry of foo-2-1, which comes after it.
C12_Witness ==
    /\ ColdGet /\ call.arg = N_foo
    /\ fs = <<D_foobar, D_foo>>
    /\ ret.val.kind = "Ok" /\ ret.val.val.desc.name = N_foo
    /\ N_foo \in DOMAIN db

\* ------------------------------------------------------------------------
\* Properties of the OPTDEPENDS and PACKAGER arms
\* ------------------------------------------------------------------------
\* the value of the last block of the label l among blocks
LastValue(blocks, l) ==
    LET at == {k \in 1..Len(blocks) : blocks[k].label = l}
    IN  blocks[CHOOSE k \in at : \A j \in at : j <= k].value

\* the positions of the character c in s, and the first of them
Positions(s, c) == {i \in 1..Len(s) : s[i] = c}
FirstPosition(s, c) == CHOOSE i \in Positions(s, c) : \A j \in Positions(s, c) : i <= j

\* a line split on its first colon only
AtFirstColon(line) ==
    IF Positions(line, ":") = {} THEN [package |-> Trim(line), reason |-> None]
    ELSE [package |-> Trim(SubSeq(line, 1, FirstPosition(line, ":") - 1)),
          reason  |-> Some(Trim(SubSeq(line, FirstPosition(line, ":") + 1, Len(line))))]

\* C13: in a record parse_desc returns, the optional dependencies are the
\* value lines of the OPTDEPENDS block, each split on its first colon only:
\* the package is the trimmed text before it, the reason the whole trimmed
\* text after it, further colons included, or absent without a colon.
C13_SplitOnFirstColon ==
    (descRet.some /\ descRet.val.kind = "Ok") =>
        LET blocks == Blocks(desc)
            ls     == Split(Trim(LastValue(blocks, B_OPTDEPENDS)), NL)
        IN  B_OPTDEPENDS \in LabelsOf(blocks) =>
                descRet.val.val.optional_dependencies
                    = [k \in 1..Len(ls) |-> AtFirstColon(ls[k])]

\* the text of x before its first "<", all of x without one
BeforeAddress(x) ==
    IF Positions(x, "<") = {} THEN x ELSE SubSeq(x, 1, FirstPosition(x, "<") - 1)

\* C14: parse_desc does not abort on a PACKAGER value, and in a record it
\* returns the packager of a PACKAGER block whose value is not the
\* no-packager sentinel has as its name the trimmed text of the value before
\* its first "<", wherever the "<" stands.
C14_NameBeforeAddress ==
    descRet.some =>
        /\ descRet.val.kind # "Panic"
        /\ descRet.val.kind = "Ok" =>
              LET blocks == Blocks(desc)
                  x      == Trim(LastValue(blocks, B_PACKAGER))
              IN  (B_PACKAGER \in LabelsOf(blocks) /\ x # V_unknown) =>
                      descRet.val.val.packager = Some([name |-> Trim(BeforeAddress(x))])

====
